---- MODULE Spec2Model ----
(***************************************************************************)
(* Model of excuse-gen-app/src/app.py: the /api/generate-excuse handler    *)
(* (generate_excuse) and the Databricks call it awaits                     *)
(* (call_databricks_llm): credential check, one HTTP POST, classification  *)
(* of the transport outcome, and normalisation of the upstream document    *)
(* into {subject, body}.                                                   *)
(*                                                                         *)
(* A Python str is a sequence of atoms: an atom is one character ("{",     *)
(* "\"", "\n", a digit) or an unbreakable run of letters ("S", "subject",  *)
(* "None").  Python values are tagged records.                             *)
(***************************************************************************)
EXTENDS Integers, Sequences, FiniteSets, TLC

(***************************************************************************)
(* Python values                                                           *)
(***************************************************************************)
PyStr(s)  == [t |-> "str", s |-> s]
PyInt(n)  == [t |-> "int", n |-> n]
PyNone    == [t |-> "None"]
PyList(l) == [t |-> "list", l |-> l]
PyDict(d) == [t |-> "dict", d |-> d]

\* a dict literal with one or two entries; keys are Python strs
EmptyDict     == PyDict(<<>>)
Dict1(k, v)   == PyDict([x \in {k} |-> v])
Dict2(k1, v1, k2, v2) ==
    PyDict([x \in {k1, k2} |-> IF x = k1 THEN v1 ELSE v2])
Dict3(k1, v1, k2, v2, k3, v3) ==
    PyDict([x \in {k1, k2, k3} |-> IF x = k1 THEN v1 ELSE IF x = k2 THEN v2 ELSE v3])

\* the str literals the code names
K_predictions == <<"predictions">>
K_candidates  == <<"candidates">>
K_message     == <<"message">>
K_content     == <<"content">>
K_text        == <<"text">>
K_subject     == <<"subject">>
K_body        == <<"body">>
EXCUSE_EMAIL  == <<"Excuse", " ", "Email">>

\* outcome of evaluating a Python expression: a value, or a raised exception
Val(v)        == [exc |-> "none", v |-> v]
Raise(e)      == [exc |-> e]

(***************************************************************************)
(* str methods used by the fallback: strip(), split('\n'), '\n'.join()     *)
(***************************************************************************)
Whitespace == {" ", "\n"}

RECURSIVE lstrip(_)
lstrip(s) ==
    IF s # <<>> /\ Head(s) \in Whitespace THEN lstrip(Tail(s)) ELSE s

RECURSIVE rstrip(_)
rstrip(s) ==
    IF s # <<>> /\ s[Len(s)] \in Whitespace
    THEN rstrip(SubSeq(s, 1, Len(s) - 1)) ELSE s

strip(s) == rstrip(lstrip(s))

\* s.split('\n'): always at least one element, '' for the empty string
RECURSIVE split_nl(_, _)
split_nl(s, cur) ==
    IF s = <<>> THEN <<cur>>
    ELSE IF Head(s) = "\n" THEN <<cur>> \o split_nl(Tail(s), <<>>)
    ELSE split_nl(Tail(s), Append(cur, Head(s)))

split(s) == split_nl(s, <<>>)

\* '\n'.join(parts)
RECURSIVE join(_)
join(parts) ==
    IF parts = <<>> THEN <<>>
    ELSE IF Len(parts) = 1 THEN parts[1]
    ELSE parts[1] \o <<"\n">> \o join(Tail(parts))

(***************************************************************************)
(* str(x) and repr(x) of the values an upstream document can hold          *)
(***************************************************************************)
Digits == {"0", "1", "2", "3", "4", "5", "6", "7", "8", "9"}
DigitOf(n) == CHOOSE a \in Digits : a = ToString(n)
DigitVal(a) == CHOOSE n \in 0..9 : ToString(n) = a

RECURSIVE int_str(_)
int_str(n) == IF n < 10 THEN <<DigitOf(n)>> ELSE int_str(n \div 10) \o <<DigitOf(n % 10)>>

\* repr of a str: single quotes, a newline shown as the escape \n
str_repr(s) ==
    <<"'">> \o [i \in 1..Len(s) |-> IF s[i] = "\n" THEN "\\n" ELSE s[i]] \o <<"'">>

\* the keys of a dict in a fixed order (the model's documents list them so)
KeyOrder == <<K_candidates, K_content, K_text, K_subject, K_body, K_message,
              K_predictions, <<"other">> >>
KeysOf(d) == SelectSeq(KeyOrder, LAMBDA k : k \in DOMAIN d)

RECURSIVE repr(_)
RECURSIVE repr_items(_)
RECURSIVE repr_entries(_, _)
repr_items(l) ==
    IF l = <<>> THEN <<>>
    ELSE IF Len(l) = 1 THEN repr(l[1])
    ELSE repr(l[1]) \o <<",", " ">> \o repr_items(Tail(l))
repr_entries(d, ks) ==
    IF ks = <<>> THEN <<>>
    ELSE LET e == str_repr(ks[1]) \o <<":", " ">> \o repr(d[ks[1]])
         IN  IF Len(ks) = 1 THEN e ELSE e \o <<",", " ">> \o repr_entries(d, Tail(ks))
repr(v) ==
    CASE v.t = "str"  -> str_repr(v.s)
      [] v.t = "int"  -> int_str(v.n)
      [] v.t = "None" -> <<"None">>
      [] v.t = "list" -> <<"[">> \o repr_items(v.l) \o <<"]">>
      [] v.t = "dict" -> <<"{">> \o repr_entries(v.d, KeysOf(v.d)) \o <<"}">>

\* str(x): the str itself, the repr of anything else
str(v) == IF v.t = "str" THEN v.s ELSE repr(v)

(***************************************************************************)
(* json.loads(s) for a str s: the JSON grammar over atoms.  A result is    *)
(* [ok, v, i]: the value and the index after it, or ok = FALSE             *)
(* (json.JSONDecodeError).                                                 *)
(***************************************************************************)
Fail == [ok |-> FALSE]
Ok(v, i) == [ok |-> TRUE, v |-> v, i |-> i]

RECURSIVE skip_ws(_, _)
skip_ws(s, i) ==
    IF i <= Len(s) /\ s[i] \in Whitespace THEN skip_ws(s, i + 1) ELSE i

\* index of the closing quote of the string opened before i, 0 if none;
\* a raw control character inside a string is rejected (strict mode)
RECURSIVE close_quote(_, _)
close_quote(s, i) ==
    IF i > Len(s) THEN 0
    ELSE IF s[i] = "\"" THEN i
    ELSE IF s[i] = "\n" THEN 0
    ELSE close_quote(s, i + 1)

unescape(s) == [i \in 1..Len(s) |-> IF s[i] = "\\n" THEN "\n" ELSE s[i]]

scan_string(s, i) ==
    LET j == close_quote(s, i + 1)
    IN  IF j = 0 THEN Fail ELSE Ok(PyStr(unescape(SubSeq(s, i + 1, j - 1))), j + 1)

RECURSIVE scan_digits(_, _, _)
scan_digits(s, i, acc) ==
    IF i <= Len(s) /\ s[i] \in Digits
    THEN scan_digits(s, i + 1, acc * 10 + DigitVal(s[i]))
    ELSE Ok(PyInt(acc), i)

\* an integer literal: no leading zero
scan_number(s, i) ==
    IF s[i] = "0" THEN Ok(PyInt(0), i + 1) ELSE scan_digits(s, i, 0)

RECURSIVE scan_once(_, _)
RECURSIVE scan_members(_, _, _)
RECURSIVE scan_elements(_, _, _)

\* after '{' or ',': "key" : value, then ',' or '}'
scan_members(s, i, d) ==
    LET ki == skip_ws(s, i)
    IN  IF ki > Len(s) \/ s[ki] # "\"" THEN Fail
        ELSE LET k == scan_string(s, ki)
             IN  IF ~k.ok THEN Fail
                 ELSE LET ci == skip_ws(s, k.i)
                      IN  IF ci > Len(s) \/ s[ci] # ":" THEN Fail
                          ELSE LET v == scan_once(s, skip_ws(s, ci + 1))
                               IN  IF ~v.ok THEN Fail
                                   ELSE LET ei == skip_ws(s, v.i)
                                            nd == [x \in DOMAIN d \cup {k.v.s} |->
                                                     IF x = k.v.s THEN v.v ELSE d[x]]
                                        IN  IF ei > Len(s) THEN Fail
                                            ELSE IF s[ei] = "}" THEN Ok(PyDict(nd), ei + 1)
                                            ELSE IF s[ei] = "," THEN scan_members(s, ei + 1, nd)
                                            ELSE Fail

\* after '[' or ',': value, then ',' or ']'
scan_elements(s, i, l) ==
    LET v == scan_once(s, skip_ws(s, i))
    IN  IF ~v.ok THEN Fail
        ELSE LET ei == skip_ws(s, v.i)
             IN  IF ei > Len(s) THEN Fail
                 ELSE IF s[ei] = "]" THEN Ok(PyList(Append(l, v.v)), ei + 1)
                 ELSE IF s[ei] = "," THEN scan_elements(s, ei + 1, Append(l, v.v))
                 ELSE Fail

scan_once(s, i) ==
    IF i > Len(s) THEN Fail
    ELSE IF s[i] = "\"" THEN scan_string(s, i)
    ELSE IF s[i] \in Digits THEN scan_number(s, i)
    ELSE IF s[i] = "null" THEN Ok(PyNone, i + 1)
    ELSE IF s[i] = "{" THEN
        LET j == skip_ws(s, i + 1)
        IN  IF j <= Len(s) /\ s[j] = "}" THEN Ok(EmptyDict, j + 1)
            ELSE scan_members(s, i + 1, <<>>)
    ELSE IF s[i] = "[" THEN
        LET j == skip_ws(s, i + 1)
        IN  IF j <= Len(s) /\ s[j] = "]" THEN Ok(PyList(<<>>), j + 1)
            ELSE scan_elements(s, i + 1, <<>>)
    ELSE Fail

\* json.loads(x): TypeError unless x is a str; JSONDecodeError unless the
\* whole str is one JSON value with optional whitespace around it
json_loads(x) ==
    IF x.t # "str" THEN Raise("TypeError")
    ELSE LET r == scan_once(x.s, skip_ws(x.s, 1))
         IN  IF ~r.ok THEN Raise("JSONDecodeError")
             ELSE IF skip_ws(x.s, r.i) <= Len(x.s) THEN Raise("JSONDecodeError")
             ELSE Val(r.v)

(***************************************************************************)
(* Python operators the parsing code applies to the untrusted document     *)
(***************************************************************************)
\* is k a contiguous part of s
IsSubstring(k, s) ==
    \E i \in 0..Len(s) : i + Len(k) <= Len(s) /\ SubSeq(s, i + 1, i + Len(k)) = k

\* k in x, for a str k
contains(k, x) ==
    CASE x.t = "dict" -> Val(k \in DOMAIN x.d)
      [] x.t = "list" -> Val(\E i \in 1..Len(x.l) : x.l[i] = PyStr(k))
      [] x.t = "str"  -> Val(IsSubstring(k, x.s))
      [] OTHER        -> Raise("TypeError")

\* len(x)
len(x) ==
    CASE x.t = "dict" -> Val(Cardinality(DOMAIN x.d))
      [] x.t = "list" -> Val(Len(x.l))
      [] x.t = "str"  -> Val(Len(x.s))
      [] OTHER        -> Raise("TypeError")

\* x[k], for a str k
getitem(x, k) ==
    CASE x.t = "dict" -> IF k \in DOMAIN x.d THEN Val(x.d[k]) ELSE Raise("KeyError")
      [] OTHER        -> Raise("TypeError")

\* x[0]
getitem0(x) ==
    CASE x.t = "list" -> IF x.l = <<>> THEN Raise("IndexError") ELSE Val(x.l[1])
      [] x.t = "str"  -> IF x.s = <<>> THEN Raise("IndexError") ELSE Val(PyStr(<<x.s[1]>>))
      [] x.t = "dict" -> Raise("KeyError")
      [] OTHER        -> Raise("TypeError")

\* x.get(k, default): only a dict has the method
get(x, k, default) ==
    IF x.t # "dict" THEN Raise("AttributeError")
    ELSE Val(IF k \in DOMAIN x.d THEN x.d[k] ELSE default)

\* a truth test that only looks for None
truthy_not_none(x) == x.t # "None"

\* truth value of the configured token: None and '' are falsy
truthy(x) ==
    CASE x.t = "None" -> FALSE
      [] x.t = "str"  -> x.s # <<>>
      [] OTHER        -> TRUE

(***************************************************************************)
(* Exceptions and return values of call_databricks_llm                     *)
(***************************************************************************)
HTTPException(status_code, detail) ==
    [exc |-> "HTTPException", status_code |-> status_code, detail |-> detail]

D_NOT_CONFIGURED == "DATABRICKS_API_TOKEN not configured"
D_INVALID_FORMAT == "Invalid response format from Databricks API"
D_API_ERROR      == "Databricks API error: "
D_TIMEOUT        == "Timeout calling Databricks API"
D_UNEXPECTED     == "Unexpected error: "
D_FAILED         == "Failed to generate excuse: "

\* str(e): an HTTPException prints as "<status>: <detail>", any other
\* exception is represented by its class name
str_exc(e) ==
    IF e.exc = "HTTPException" THEN <<ToString(e.status_code), ": ">> \o e.detail
    ELSE <<e.exc>>

Returned(subject, body) ==
    Val([subject |-> subject, body |-> body, success |-> TRUE, error |-> PyNone])

(***************************************************************************)
(* call_databricks_llm, the part after the await                           *)
(***************************************************************************)
\* the rules with content tried before candidates
extract_content_reordered(prediction) ==
    IF prediction.t = "dict" THEN
        IF K_content \in DOMAIN prediction.d THEN Val(prediction.d[K_content])
        ELSE IF K_candidates \in DOMAIN prediction.d THEN
            LET c0 == getitem0(prediction.d[K_candidates])
            IN  IF c0.exc # "none" THEN c0
                ELSE LET m == getitem(c0.v, K_message)
                     IN  IF m.exc # "none" THEN m ELSE getitem(m.v, K_content)
        ELSE IF K_text \in DOMAIN prediction.d THEN Val(prediction.d[K_text])
        ELSE Val(PyStr(str(prediction)))
    ELSE Val(PyStr(str(prediction)))

\* lines 138-149: the raw text of the first prediction
extract_content(prediction) ==
    IF prediction.t = "dict" THEN
        IF K_candidates \in DOMAIN prediction.d THEN
            LET c0 == getitem0(prediction.d[K_candidates])
            IN  IF c0.exc # "none" THEN c0
                ELSE LET m == getitem(c0.v, K_message)
                     IN  IF m.exc # "none" THEN m ELSE getitem(m.v, K_content)
        ELSE IF K_content \in DOMAIN prediction.d THEN Val(prediction.d[K_content])
        ELSE IF K_text \in DOMAIN prediction.d THEN Val(prediction.d[K_text])
        ELSE Val(PyStr(str(prediction)))
    ELSE Val(PyStr(str(prediction)))

\* lines 160-171: the plain-text fallback
fallback(content) ==
    LET lines   == split(strip(content.s))
        subject == IF lines # <<>> THEN lines[1] ELSE EXCUSE_EMAIL
        body    == IF Len(lines) > 1 THEN join(Tail(lines)) ELSE content.s
    IN  Returned(PyStr(subject), PyStr(body))

\* the two defaults exchanged
build_result_swapped(content) ==
    LET parsed == json_loads(content)
    IN  IF parsed.exc = "JSONDecodeError" THEN fallback(content)
        ELSE IF parsed.exc # "none" THEN parsed
        ELSE LET subject == get(parsed.v, K_subject, content)
                 body    == get(parsed.v, K_body, PyStr(EXCUSE_EMAIL))
             IN  IF subject.exc # "none" THEN subject
                 ELSE IF body.exc # "none" THEN body
                 ELSE Returned(subject.v, body.v)

\* lines 151-171: json.loads, the two .get calls, or the fallback
build_result(content) ==
    LET parsed == json_loads(content)
    IN  IF parsed.exc = "JSONDecodeError" THEN fallback(content)
        ELSE IF parsed.exc # "none" THEN parsed
        ELSE LET subject == get(parsed.v, K_subject, PyStr(EXCUSE_EMAIL))
                 body    == get(parsed.v, K_body, content)
             IN  IF subject.exc # "none" THEN subject
                 ELSE IF body.exc # "none" THEN body
                 ELSE Returned(subject.v, body.v)

\* line 134: "predictions" in result and len(result["predictions"]) > 0
has_predictions(result) ==
    LET c == contains(K_predictions, result)
    IN  IF c.exc # "none" \/ ~c.v THEN c
        ELSE LET p == getitem(result, K_predictions)
             IN  IF p.exc # "none" THEN p
                 ELSE LET n == len(p.v)
                      IN  IF n.exc # "none" THEN n ELSE Val(n.v > 0)

\* lines 134-176: what the body of the try block returns or raises once
\* response.json() has produced result
parse_response(result) ==
    LET h == has_predictions(result)
    IN  IF h.exc # "none" THEN h
        ELSE IF ~h.v THEN HTTPException(500, <<D_INVALID_FORMAT>>)
        ELSE LET prediction == getitem0(getitem(result, K_predictions).v)
             IN  IF prediction.exc # "none" THEN prediction
                 ELSE LET content == extract_content(prediction.v)
                      IN  IF content.exc # "none" THEN content
                          ELSE build_result(content.v)

\* httpx: status codes the response counts as a success
is_success(status_code) == status_code \in 200..299

\* lines 122-176: the try block from the reply of client.post on
try_block(rep) ==
    CASE rep.kind = "timeout"   -> Raise("TimeoutException")
      [] rep.kind = "transport" -> Raise("ConnectError")
      [] rep.kind = "response"  ->
            IF ~is_success(rep.status_code)
            THEN [exc |-> "HTTPStatusError", response |-> rep]
            ELSE IF rep.json.exc # "none" THEN rep.json
            ELSE parse_response(rep.json.v)

\* the except clauses with the catch-all first
except_clauses_catch_all(e) ==
    HTTPException(500, <<D_UNEXPECTED>> \o str_exc(e))

\* lines 178-195: the except clauses, tried in order
except_clauses(e) ==
    IF e.exc = "HTTPStatusError"
    THEN HTTPException(e.response.status_code, <<D_API_ERROR, e.response.text>>)
    ELSE IF e.exc = "TimeoutException"
    THEN HTTPException(504, <<D_TIMEOUT>>)
    ELSE HTTPException(500, <<D_UNEXPECTED>> \o str_exc(e))

\* call_databricks_llm from the reply on: its return value or the
\* HTTPException it raises
after_post(rep) ==
    LET r == try_block(rep)
    IN  IF r.exc = "none" THEN r ELSE except_clauses(r)

(***************************************************************************)
(* generate_excuse, lines 199-212                                          *)
(***************************************************************************)
\* pydantic validation of a field declared str: version 1 converts an int,
\* version 2 rejects it; both reject None, lists and dicts
validate_str(x, major) ==
    CASE x.t = "str" -> Val(x)
      [] x.t = "int" -> IF major = 1 THEN Val(PyStr(int_str(x.n))) ELSE Raise("ValidationError")
      [] OTHER       -> Raise("ValidationError")

\* ExcuseResponse(**result)
ExcuseResponse(result, major) ==
    LET subject == validate_str(result.subject, major)
        body    == validate_str(result.body, major)
    IN  IF subject.exc # "none" THEN subject
        ELSE IF body.exc # "none" THEN body
        ELSE Val([subject |-> subject.v, body |-> body.v,
                  success |-> result.success, error |-> result.error])

\* what the endpoint returns or raises for the outcome r of
\* call_databricks_llm
finish(r, major) ==
    IF r.exc = "HTTPException" THEN r
    ELSE LET resp == ExcuseResponse(r.v, major)
         IN  IF resp.exc = "none" THEN resp
             ELSE HTTPException(500, <<D_FAILED>> \o str_exc(resp))

(***************************************************************************)
(* Inputs: what the upstream model can answer                              *)
(***************************************************************************)
NumRequests == 2
MaxLen      == 3

Requests == 1..NumRequests

Seqs(A, n) == UNION {[1..k -> A] : k \in 0..n}

\* a JSON string literal: double quotes, a newline written as the escape \n
json_str(s) ==
    <<"\"">> \o [i \in 1..Len(s) |-> IF s[i] = "\n" THEN "\\n" ELSE s[i]] \o <<"\"">>

\* compact JSON text of a value, as a model instructed to "respond ONLY
\* with valid JSON" writes it
RECURSIVE dumps(_)
RECURSIVE dumps_items(_)
RECURSIVE dumps_entries(_, _)
dumps_items(l) ==
    IF l = <<>> THEN <<>>
    ELSE IF Len(l) = 1 THEN dumps(l[1])
    ELSE dumps(l[1]) \o <<",">> \o dumps_items(Tail(l))
dumps_entries(d, ks) ==
    IF ks = <<>> THEN <<>>
    ELSE LET e == json_str(ks[1]) \o <<":">> \o dumps(d[ks[1]])
         IN  IF Len(ks) = 1 THEN e ELSE e \o <<",">> \o dumps_entries(d, Tail(ks))
dumps(v) ==
    CASE v.t = "str"  -> json_str(v.s)
      [] v.t = "int"  -> int_str(v.n)
      [] v.t = "None" -> <<"null">>
      [] v.t = "list" -> <<"[">> \o dumps_items(v.l) \o <<"]">>
      [] v.t = "dict" -> <<"{">> \o dumps_entries(v.d, KeysOf(v.d)) \o <<"}">>

\* plain text: every str of at most MaxLen atoms over words, space, newline
PlainAtoms == {"S", "B", " ", "\n"}
PlainTexts == Seqs(PlainAtoms, MaxLen)

\* JSON objects with any of the keys subject, body
FieldValues == {PyStr(<<"S">>), PyStr(<<"B">>), PyStr(<<>>), PyInt(5), PyNone}
Objects ==
    UNION {{PyDict(f) : f \in [ks -> FieldValues]} : ks \in SUBSET {K_subject, K_body}}
    \cup {Dict1(<<"other">>, PyStr(<<"S">>))}

\* JSON texts: the objects, bare and wrapped in whitespace; other JSON values
JsonTexts ==
    {dumps(o) : o \in Objects}
    \cup {<<" ">> \o dumps(o) \o <<"\n">> : o \in Objects}
    \cup {dumps(v) : v \in {PyInt(5), PyInt(0), PyNone, PyStr(<<"S">>), PyStr(<<>>),
                            PyList(<<>>), PyList(<<PyInt(5)>>),
                            PyList(<<Dict1(K_subject, PyStr(<<"S">>))>>)}}

\* texts that start like JSON but are not
BrokenTexts ==
    {<<"{">>, <<"{", "\"", "subject", "\"", ":">>, <<"\"", "S">>, <<"[", "5", ",", "]">>,
     <<"\"", "S", "\n", "B", "\"">>,
     dumps(Dict1(K_subject, PyStr(<<"S">>))) \o <<"\n", "B">>,
     <<"S", "\n">> \o dumps(Dict1(K_body, PyStr(<<"B">>)))}

Texts == PlainTexts \cup JsonTexts \cup BrokenTexts

\* values found where the raw text is expected
ContentValues ==
    {PyStr(t) : t \in Texts}
    \cup {PyInt(5), PyNone, PyList(<<>>), Dict1(K_subject, PyStr(<<"S">>))}

Candidate(v)  == Dict1(K_message, Dict1(K_content, v))
Candidates(v) == PyList(<<Candidate(v)>>)

\* values that tell which rule produced the raw text
Marks == {PyStr(<<"S">>), PyStr(<<"B">>), PyStr(dumps(Dict1(K_body, PyStr(<<"B">>))))}

\* first predictions with one of the three keys
KeyedPredictions ==
    {Dict1(K_content, v) : v \in ContentValues}
    \cup {Dict1(K_text, v) : v \in ContentValues}
    \cup {Dict1(K_candidates, Candidates(v)) : v \in ContentValues}

\* first predictions with several of the keys, holding different values
MixedPredictions ==
    UNION {{Dict2(K_candidates, Candidates(a), K_content, b),
            Dict2(K_candidates, Candidates(a), K_text, b),
            Dict2(K_content, a, K_text, b),
            Dict3(K_candidates, Candidates(a), K_content, b, K_text, c),
            Dict1(K_candidates, PyList(<<Candidate(a), Candidate(b)>>))}
           : <<a, b, c>> \in {m \in Marks \X Marks \X Marks : m[1] # m[2] /\ m[2] # m[3]}}

\* candidates that have no first message content
BadCandidates ==
    {Dict1(K_candidates, c) :
        c \in {PyList(<<>>), PyList(<<EmptyDict>>), PyList(<<Dict1(K_message, EmptyDict)>>),
               PyList(<<Dict1(K_message, PyStr(<<"S">>))>>), PyList(<<PyStr(<<"S">>)>>),
               PyNone, PyInt(5), EmptyDict, PyStr(<<"S">>), PyStr(<<>>)}}
    \cup {Dict2(K_candidates, PyList(<<>>), K_content, PyStr(<<"S">>))}

\* objects with none of the keys, and predictions that are not objects
OtherPredictions ==
    {EmptyDict, Dict1(<<"other">>, PyStr(<<"S">>)), Dict1(<<"other">>, PyInt(5)),
     Dict1(K_subject, PyStr(<<"S">>)),
     PyInt(5), PyInt(0), PyNone, PyList(<<>>), PyList(<<PyInt(5)>>),
     PyList(<<PyStr(<<"S">>)>>)}
    \cup {PyStr(t) : t \in Texts}

Predictions == KeyedPredictions \cup MixedPredictions \cup BadCandidates \cup OtherPredictions

\* a few predictions, used where only the position matters
SomePredictions ==
    {Dict1(K_content, PyStr(<<"S">>)), Dict1(K_content, PyStr(<<"B", "\n", "S">>)),
     Dict1(K_text, PyStr(dumps(Dict1(K_body, PyStr(<<"B">>))))),
     Dict1(K_candidates, PyList(<<>>)), PyInt(5), PyStr(<<"B">>)}

\* upstream documents
Documents ==
    {Dict1(K_predictions, PyList(<<p>>)) : p \in Predictions}
    \cup {Dict1(K_predictions, PyList(<<p, q>>)) : p \in SomePredictions, q \in SomePredictions}
    \cup {Dict2(K_predictions, PyList(<<p>>), <<"other">>, PyInt(5)) : p \in SomePredictions}
    \cup {EmptyDict, Dict1(<<"other">>, PyInt(5)), Dict1(K_content, PyStr(<<"S">>)),
          Dict1(K_predictions, PyList(<<>>)), Dict1(K_predictions, PyNone),
          Dict1(K_predictions, PyInt(5)), Dict1(K_predictions, EmptyDict),
          Dict1(K_predictions, Dict1(K_content, PyStr(<<"S">>))),
          Dict1(K_predictions, PyStr(<<>>)), Dict1(K_predictions, PyStr(<<"S", "\n", "B">>)),
          PyList(<<>>), PyList(<<PyStr(K_predictions)>>), PyStr(<<"S">>),
          PyStr(K_predictions), PyInt(5), PyNone}

\* replies of client.post: a response, a timeout, another transport fault
Response(status_code, json) ==
    [kind |-> "response", status_code |-> status_code, text |-> "body", json |-> json]
Timeout   == [kind |-> "timeout"]
Transport == [kind |-> "transport"]

ErrorStatuses == {302, 400, 404, 429, 500, 503}

Replies ==
    {Response(200, Val(d)) : d \in Documents}
    \cup {Response(c, Val(Dict1(K_predictions, PyList(<<p>>)))) :
             c \in {201, 299}, p \in SomePredictions}
    \cup {Response(c, Raise("JSONDecodeError")) : c \in {200} \cup ErrorStatuses}
    \cup {Response(c, Val(Dict1(K_predictions, PyList(<<p>>)))) :
             c \in ErrorStatuses, p \in {Dict1(K_content, PyStr(<<"S">>))}}
    \cup {Response(c, Val(EmptyDict)) : c \in {201} \cup ErrorStatuses}
    \cup {Timeout, Transport}

\* the replies two concurrent requests choose from
SomeReplies ==
    {Response(200, Val(Dict1(K_predictions, PyList(<<p>>)))) : p \in SomePredictions}
    \cup {Response(200, Val(EmptyDict)), Response(200, Val(Dict1(K_predictions, PyList(<<>>)))),
          Response(200, Raise("JSONDecodeError")),
          Response(404, Val(EmptyDict)), Response(503, Raise("JSONDecodeError")),
          Timeout, Transport}

\* validated requests: seriousness within 1..5 (Field(ge=1, le=5))
ExcuseRequests ==
    {[category |-> "late", tone |-> "formal", seriousness |-> n,
      recipient_name |-> "R", sender_name |-> "N", eta_when |-> "soon"] : n \in {1, 5}}

Tokens == {PyNone, PyStr(<<>>), PyStr(<<"tok">>)}

(***************************************************************************)
(* call_databricks_llm, the part before the await                          *)
(***************************************************************************)
\* lines 85-103: the prompt, the request fields as labelled context lines
prompt(request_data) ==
    <<"Category: ", request_data.category, "Tone: ", request_data.tone,
      "Seriousness Level: ", ToString(request_data.seriousness),
      "Recipient: ", request_data.recipient_name, "Sender: ", request_data.sender_name,
      "ETA/When: ", request_data.eta_when>>

\* lines 106-119: the body and the headers of the POST
post_message(request_data, token) ==
    [json |-> [dataframe_records |-> << [messages |->
                  << [role |-> "user", content |-> prompt(request_data)] >> ] >> ],
     headers |-> [Authorization |-> <<"Bearer ">> \o token.s,
                  ContentType |-> "application/json"]]

(***************************************************************************)
(* State                                                                   *)
(***************************************************************************)
VARIABLES
    DATABRICKS_API_TOKEN,  \* the process-wide token, read at start-up
    pydantic_major,        \* the installed major version of pydantic
    pc,                    \* per request: idle, awaiting, replied, done
    request,               \* per request: the ExcuseRequest
    posts,                 \* per request: the POSTs sent upstream
    reply,                 \* per request: what client.post produced
    content,               \* per request: the local variable content
    result,                \* per request: outcome of call_databricks_llm
    outcome                \* per request: outcome of generate_excuse

vars == <<DATABRICKS_API_TOKEN, pydantic_major, pc, request, posts, reply,
          content, result, outcome>>

Unset   == [exc |-> "unset"]
NoReply == [kind |-> "none"]
NoRequest == [seriousness |-> 0]

Init ==
    /\ DATABRICKS_API_TOKEN \in Tokens
    /\ pydantic_major \in {1, 2}
    /\ pc = [r \in Requests |-> "idle"]
    /\ request = [r \in Requests |-> NoRequest]
    /\ posts = [r \in Requests |-> <<>>]
    /\ reply = [r \in Requests |-> NoReply]
    /\ content = [r \in Requests |-> Unset]
    /\ result = [r \in Requests |-> Unset]
    /\ outcome = [r \in Requests |-> Unset]

\* a response kept in one place for all requests: the resuming coroutine
\* sees the reply of another request when there is one
response_shared(r) ==
    IF \E q \in Requests : q # r /\ reply[q] # NoReply
    THEN reply[CHOOSE q \in Requests : q # r /\ reply[q] # NoReply]
    ELSE reply[r]

\* line 123: the reply the coroutine of request r resumes with
response(r) == reply[r]

\* the value of the local variable content once line 149 is passed
content_at_149(rep) ==
    IF rep.kind = "response" /\ is_success(rep.status_code) /\ rep.json.exc = "none"
    THEN LET h == has_predictions(rep.json.v)
         IN  IF h.exc = "none" /\ h.v
             THEN LET prediction == getitem0(getitem(rep.json.v, K_predictions).v)
                  IN  IF prediction.exc = "none" THEN extract_content(prediction.v)
                      ELSE Unset
             ELSE Unset
    ELSE Unset

\* generate_excuse is called with a validated request and runs
\* call_databricks_llm up to the await: without a token it raises at once,
\* with one it sends the POST and suspends
GenerateExcuse(r) ==
    /\ pc[r] = "idle"
    /\ \E request_data \in ExcuseRequests :
        /\ request' = [request EXCEPT ![r] = request_data]
        /\ IF ~truthy(DATABRICKS_API_TOKEN)
           THEN /\ result' = [result EXCEPT ![r] = HTTPException(500, <<D_NOT_CONFIGURED>>)]
                /\ outcome' = [outcome EXCEPT ![r] =
                                  finish(HTTPException(500, <<D_NOT_CONFIGURED>>), pydantic_major)]
                /\ pc' = [pc EXCEPT ![r] = "done"]
                /\ posts' = posts
           ELSE /\ posts' = [posts EXCEPT ![r] =
                                Append(@, post_message(request_data, DATABRICKS_API_TOKEN))]
                /\ pc' = [pc EXCEPT ![r] = "awaiting"]
                /\ UNCHANGED <<result, outcome>>
    /\ UNCHANGED <<DATABRICKS_API_TOKEN, pydantic_major, reply, content>>

\* the upstream answers the POST of request r, or the 30 s timeout or a
\* transport fault ends it
HttpReply(r, Rs) ==
    /\ pc[r] = "awaiting"
    /\ \E rep \in Rs : reply' = [reply EXCEPT ![r] = rep]
    /\ pc' = [pc EXCEPT ![r] = "replied"]
    /\ UNCHANGED <<DATABRICKS_API_TOKEN, pydantic_major, request, posts, content,
                   result, outcome>>

\* a handler that sends the POST a second time when the first attempt fails
Resume_retry(r) ==
    /\ pc[r] = "replied"
    /\ LET res == after_post(response(r))
       IN  IF res.exc # "none" /\ Len(posts[r]) < 2
           THEN /\ posts' = [posts EXCEPT ![r] =
                                Append(@, post_message(request[r], DATABRICKS_API_TOKEN))]
                /\ pc' = [pc EXCEPT ![r] = "awaiting"]
                /\ UNCHANGED <<content, result, outcome>>
           ELSE /\ content' = [content EXCEPT ![r] = content_at_149(response(r))]
                /\ result' = [result EXCEPT ![r] = res]
                /\ outcome' = [outcome EXCEPT ![r] = finish(res, pydantic_major)]
                /\ pc' = [pc EXCEPT ![r] = "done"]
                /\ posts' = posts
    /\ UNCHANGED <<DATABRICKS_API_TOKEN, pydantic_major, request, reply>>

\* the coroutine of request r resumes and runs to the end of generate_excuse
Resume(r) ==
    /\ pc[r] = "replied"
    /\ LET res == after_post(response(r))
       IN  /\ content' = [content EXCEPT ![r] = content_at_149(response(r))]
           /\ result' = [result EXCEPT ![r] = res]
           /\ outcome' = [outcome EXCEPT ![r] = finish(res, pydantic_major)]
    /\ pc' = [pc EXCEPT ![r] = "done"]
    /\ UNCHANGED <<DATABRICKS_API_TOKEN, pydantic_major, request, posts, reply>>

\* concurrent requests, a few replies each
Next ==
    \E r \in Requests :
        \/ GenerateExcuse(r)
        \/ HttpReply(r, SomeReplies)
        \/ Resume(r)

Spec == Init /\ [][Next]_vars

\* one request, every reply
NextNormalizer ==
    \/ GenerateExcuse(1)
    \/ HttpReply(1, Replies)
    \/ Resume(1)

SpecNormalizer == Init /\ [][NextNormalizer]_vars

(***************************************************************************)
(* Vocabulary of the properties                                            *)
(***************************************************************************)
Configured   == DATABRICKS_API_TOKEN \notin {PyNone, PyStr(<<>>)}
IsDone(r)    == pc[r] = "done"
Succeeded(o) == o.exc = "none"
Failed(o)    == o.exc = "HTTPException"
Kind(o)      == o.detail[1]
NonEmptyStr(x) == x.t = "str" /\ x.s # <<>>

Got2xx(r)      == reply[r].kind = "response" /\ reply[r].status_code \in 200..299
GotNon2xx(r)   == reply[r].kind = "response" /\ reply[r].status_code \notin 200..299
HasDocument(r) == Got2xx(r) /\ reply[r].json.exc = "none"
Document(r)    == reply[r].json.v
HasPredictionsKey(r) ==
    HasDocument(r) /\ Document(r).t = "dict" /\ K_predictions \in DOMAIN Document(r).d
PredictionsOf(r) == Document(r).d[K_predictions]
NonEmptyPredictions(r) ==
    HasPredictionsKey(r) /\ PredictionsOf(r).t = "list" /\ PredictionsOf(r).l # <<>>
MissingPredictions(r) ==
    /\ HasDocument(r) /\ Document(r).t = "dict"
    /\ \/ K_predictions \notin DOMAIN Document(r).d
       \/ PredictionsOf(r).t = "list" /\ PredictionsOf(r).l = <<>>
FirstPrediction(r) == PredictionsOf(r).l[1]

(***************************************************************************)
(* C1: every 2xx reply whose document has a non-empty predictions array    *)
(* ends in Success, whatever the first prediction is.                      *)
(***************************************************************************)
C1_SuccessBelowPredictions ==
    \A r \in Requests :
        IsDone(r) /\ NonEmptyPredictions(r)
            => Succeeded(result[r]) /\ Succeeded(outcome[r])

(***************************************************************************)
(* C2: in every Success returned by call_databricks_llm, subject and body  *)
(* are non-empty strings.                                                  *)
(***************************************************************************)
C2_NonEmptyFields ==
    \A r \in Requests :
        Succeeded(result[r])
            => NonEmptyStr(result[r].v.subject) /\ NonEmptyStr(result[r].v.body)

(***************************************************************************)
(* C3: a 2xx document without predictions, or with an empty predictions    *)
(* array, gives the caller the 'Invalid response format' failure, not the  *)
(* 'Unexpected error' one.                                                 *)
(***************************************************************************)
C3_InvalidShapeKept ==
    \A r \in Requests :
        IsDone(r) /\ MissingPredictions(r)
            => /\ Failed(outcome[r])
               /\ Kind(outcome[r]) = D_INVALID_FORMAT
               /\ Kind(outcome[r]) # D_UNEXPECTED

(***************************************************************************)
(* C4: without a configured token every request ends in the configuration  *)
(* failure, whatever its fields, and no POST is sent for it: the request   *)
(* never waits for the upstream.                                           *)
(***************************************************************************)
C4_NoTokenNoPost ==
    ~Configured =>
        \A r \in Requests :
            /\ posts[r] = <<>>
            /\ reply[r] = NoReply
            /\ pc[r] \in {"idle", "done"}
            /\ IsDone(r) => /\ Failed(outcome[r])
                            /\ outcome[r].detail = <<D_NOT_CONFIGURED>>
                            /\ result[r] = outcome[r]

C4_Witness ==
    /\ ~Configured
    /\ \E r \in Requests : IsDone(r) /\ request[r].seriousness = 5 /\ Failed(outcome[r])

(***************************************************************************)
(* C5: the status code of a failure: missing token -> 503, upstream HTTP   *)
(* error -> the upstream's status, timeout -> 504, invalid shape and       *)
(* unexpected error -> 500; generate_excuse passes the failure of          *)
(* call_databricks_llm through unchanged.                                  *)
(***************************************************************************)
StatusMapping(config_status) ==
    \A r \in Requests :
        IsDone(r) =>
            /\ ~Configured => Failed(outcome[r]) /\ outcome[r].status_code = config_status
            /\ Configured /\ GotNon2xx(r) =>
                   /\ Failed(outcome[r]) /\ Kind(outcome[r]) = D_API_ERROR
                   /\ outcome[r].status_code = reply[r].status_code
            /\ Configured /\ reply[r] = Timeout =>
                   /\ Failed(outcome[r]) /\ Kind(outcome[r]) = D_TIMEOUT
                   /\ outcome[r].status_code = 504
            /\ Configured /\ reply[r] = Transport =>
                   Failed(outcome[r]) /\ outcome[r].status_code = 500
            /\ Configured /\ MissingPredictions(r) =>
                   Failed(outcome[r]) /\ outcome[r].status_code = 500
            /\ Failed(outcome[r]) /\ Kind(outcome[r]) \in {D_INVALID_FORMAT, D_UNEXPECTED}
                   => outcome[r].status_code = 500
            /\ Failed(result[r]) => outcome[r] = result[r]

\* C5 as stated: the configuration failure carries 503
C5_StatusMapping503 == StatusMapping(503)

\* C5 amended: the configuration failure carries 500, like the unexpected
\* error; the rest of the mapping is as stated
C5_StatusMapping500 == StatusMapping(500)

C5_Witness ==
    \E r, q \in Requests :
        /\ IsDone(r) /\ GotNon2xx(r) /\ outcome[r].status_code = 404
        /\ IsDone(q) /\ reply[q] = Timeout /\ outcome[q].status_code = 504

C5_WitnessNoToken ==
    ~Configured /\ \E r \in Requests : IsDone(r) /\ outcome[r].status_code = 500

(***************************************************************************)
(* C6: a request sends at most one POST, exactly one when the token is     *)
(* configured; after an HTTP error, a timeout or a transport fault there   *)
(* is no second POST and the caller receives that first failure.           *)
(***************************************************************************)
C6_SinglePost ==
    \A r \in Requests :
        /\ Len(posts[r]) = IF Configured /\ pc[r] # "idle" THEN 1 ELSE 0
        /\ IsDone(r) /\ Configured /\ (GotNon2xx(r) \/ reply[r] \in {Timeout, Transport})
               => /\ Failed(outcome[r])
                  /\ Kind(outcome[r]) =
                        IF GotNon2xx(r) THEN D_API_ERROR
                        ELSE IF reply[r] = Timeout THEN D_TIMEOUT ELSE D_UNEXPECTED

C6_Witness ==
    \E r \in Requests :
        IsDone(r) /\ reply[r] = Timeout /\ Len(posts[r]) = 1 /\ Failed(outcome[r])

(***************************************************************************)
(* C7: the raw text comes from the first prediction by ordered rules:      *)
(* candidates (first candidate's message content) before content before    *)
(* text before the stringified object; a prediction that is not an object  *)
(* is stringified; later predictions do not influence the result.          *)
(***************************************************************************)
C7_RawTextRules ==
    \A r \in Requests :
        IsDone(r) /\ NonEmptyPredictions(r) =>
            LET p == FirstPrediction(r)
            IN  /\ content[r].exc = "none" /\ p.t = "dict" =>
                       IF K_candidates \in DOMAIN p.d
                       THEN content[r].v = p.d[K_candidates].l[1].d[K_message].d[K_content]
                       ELSE IF K_content \in DOMAIN p.d THEN content[r].v = p.d[K_content]
                       ELSE IF K_text \in DOMAIN p.d THEN content[r].v = p.d[K_text]
                       ELSE content[r].v = PyStr(str(p))
                /\ p.t # "dict" => content[r] = Val(PyStr(str(p)))
                /\ p.t = "dict" /\ K_candidates \notin DOMAIN p.d => content[r].exc = "none"
                /\ result[r] =
                       after_post(Response(reply[r].status_code,
                                           Val(Dict1(K_predictions, PyList(<<p>>)))))

C7_Witness ==
    \E r \in Requests :
        /\ IsDone(r) /\ NonEmptyPredictions(r)
        /\ FirstPrediction(r).t = "dict"
        /\ DOMAIN FirstPrediction(r).d = {K_candidates, K_content, K_text}
        /\ content[r] = Val(PyStr(<<"S">>))
        /\ FirstPrediction(r).d[K_content] = PyStr(<<"B">>)

C7_WitnessSecondPrediction ==
    \E r \in Requests :
        /\ IsDone(r) /\ NonEmptyPredictions(r) /\ Len(PredictionsOf(r).l) = 2
        /\ PredictionsOf(r).l[2] # PredictionsOf(r).l[1]
        /\ Succeeded(result[r])

(***************************************************************************)
(* C8: when the raw text parses as JSON, a Success takes subject from the  *)
(* parsed subject key, "Excuse Email" when the key is absent, and body     *)
(* from the parsed body key, the whole raw text when the key is absent.    *)
(***************************************************************************)
C8_ParsedDefaults ==
    \A r \in Requests :
        IsDone(r) /\ content[r].exc = "none" /\ content[r].v.t = "str" =>
            LET parsed == json_loads(content[r].v)
            IN  /\ parsed.exc = "none" /\ Succeeded(result[r]) =>
                    /\ result[r].v.subject =
                          IF K_subject \in DOMAIN parsed.v.d THEN parsed.v.d[K_subject]
                          ELSE PyStr(<<"Excuse", " ", "Email">>)
                    /\ result[r].v.body =
                          IF K_body \in DOMAIN parsed.v.d THEN parsed.v.d[K_body]
                          ELSE content[r].v
                /\ parsed.exc = "none" /\ parsed.v.t = "dict" => Succeeded(result[r])
                /\ content[r].v = PyStr(dumps(Dict2(K_subject, PyStr(<<"S">>),
                                                    K_body, PyStr(<<"B">>))))
                       => outcome[r].v.subject = PyStr(<<"S">>)
                          /\ outcome[r].v.body = PyStr(<<"B">>)
                /\ content[r].v = PyStr(dumps(Dict1(K_body, PyStr(<<"B">>))))
                       => outcome[r].v.subject = PyStr(<<"Excuse", " ", "Email">>)
                          /\ outcome[r].v.body = PyStr(<<"B">>)

C8_Witness ==
    \E r \in Requests :
        /\ IsDone(r)
        /\ content[r] = Val(PyStr(<<"{", "\"", "body", "\"", ":", "\"", "B", "\"", "}">>))
        /\ Succeeded(outcome[r])
        /\ outcome[r].v.subject = PyStr(<<"Excuse", " ", "Email">>)

C8_WitnessNoKeys ==
    \E r \in Requests :
        /\ IsDone(r) /\ content[r] = Val(PyStr(<<" ", "{", "}", "\n">>))
        /\ Succeeded(result[r]) /\ result[r].v.body = PyStr(<<" ", "{", "}", "\n">>)

(***************************************************************************)
(* C9: when the raw text does not parse as JSON, subject is the first line *)
(* of the raw text, "Excuse Email" when there are no lines, and body is    *)
(* the remaining lines joined by newlines, the full raw text when there is *)
(* only one line.                                                          *)
(***************************************************************************)
\* the lines of a text: none for the empty text, a final newline ends the
\* last line
LinesOf(s) ==
    IF s = <<>> THEN <<>>
    ELSE IF s[Len(s)] = "\n" THEN split(SubSeq(s, 1, Len(s) - 1))
    ELSE split(s)

C9_LineSplitting ==
    \A r \in Requests :
        IsDone(r) /\ content[r].exc = "none" /\ content[r].v.t = "str"
        /\ json_loads(content[r].v).exc = "JSONDecodeError" =>
            LET raw == content[r].v.s
                ls  == LinesOf(raw)
            IN  /\ Succeeded(result[r])
                /\ result[r].v.subject =
                      PyStr(IF ls = <<>> THEN <<"Excuse", " ", "Email">> ELSE ls[1])
                /\ result[r].v.body =
                      PyStr(IF Len(ls) > 1 THEN join(Tail(ls)) ELSE raw)

(***************************************************************************)
(* C10: concurrent requests are independent: the outcome of a request is a *)
(* function of its own ExcuseRequest, its own upstream reply and the       *)
(* read-only configuration, under every interleaving.                      *)
(***************************************************************************)
OwnOutcome(r) ==
    IF ~Configured THEN HTTPException(500, <<D_NOT_CONFIGURED>>)
    ELSE finish(after_post(reply[r]), pydantic_major)

C10_Independent ==
    \A r \in Requests :
        /\ IsDone(r) => outcome[r] = OwnOutcome(r)
        /\ \A i \in 1..Len(posts[r]) :
               posts[r][i] = post_message(request[r], DATABRICKS_API_TOKEN)

C10_Witness ==
    \E r, q \in Requests :
        /\ r # q /\ IsDone(r) /\ pc[q] = "replied"
        /\ reply[r] # reply[q] /\ request[r] # request[q]
        /\ Succeeded(outcome[r]) /\ reply[q] = Timeout

====
